---- MODULE Spec2Model ----
(***************************************************************************)
(* Model of src/main.py: apply_fraud_rules, the rule passes over a batch   *)
(* of transactions, the per-customer sliding-window scan, the clip of the  *)
(* score and label_risk.                                                   *)
(*                                                                         *)
(* A DataFrame is a sequence of rows (the positional order); every row     *)
(* carries its index label in the field idx (pd.read_csv gives the labels  *)
(* 0..n-1, unique).  The reason column, a string built by +=, is the       *)
(* sequence of the fragments appended to it.  Money is in whole currency   *)
(* units and compared exactly.  A timestamp is the parsed content of the   *)
(* "%Y-%m-%d %H:%M:%S" text: day, hour, minute, second.                    *)
(***************************************************************************)
EXTENDS Integers, Sequences, FiniteSets, TLC

VARIABLES df, pc, pending, times, indices, start, end, it, suspicious_idx, ref

vars == <<df, pc, pending, times, indices, start, end, it, suspicious_idx, ref>>

(***************************************************************************)
(* Bounds of the model and constants of the program                        *)
(***************************************************************************)
MaxTx == 7

window_minutes == 10

max_tx_in_window == 6

ClipMax == 100

HighAmount == 8000

NightAmount == 500

DrainAmount == 1000

W_high == 40

W_risky == 25

W_mismatch == 20

W_night == 15

W_freq == 30

W_drain == 20

\* the reason texts of lines 117-166, written without their accents
R_high == "Monto extremadamente alto; "

R_risky == "Pais de alto riesgo; "

R_mismatch == "IP y tarjeta en paises distintos; "

R_night == "Actividad nocturna inusual; "

R_freq == "Alta frecuencia en 10min; "

R_drain == "Vaciado de cuenta; "

risky_countries == {"NG", "RU", "CN"}

customer_ids == {1000, 1001}

home_countries_map == [c \in customer_ids |-> IF c = 1000 THEN "PY" ELSE "AR"]

(***************************************************************************)
(* Timestamps                                                              *)
(***************************************************************************)
TS(d, h, mi, s) == [d |-> d, h |-> h, mi |-> mi, s |-> s]

\* tx_time.strftime: the fields of an instant given in seconds
FromSeconds(n) == TS(n \div 86400, (n \div 3600) % 24, (n \div 60) % 60, n % 60)

\* pd.to_datetime: the instant, in seconds, of the parsed text
to_datetime(t) == ((t.d * 24 + t.h) * 60 + t.mi) * 60 + t.s

\* Series.dt.hour
dt_hour(dt) == (dt \div 3600) % 24

(***************************************************************************)
(* Sequence helpers                                                        *)
(***************************************************************************)
Reverse(s) == [k \in 1..Len(s) |-> s[Len(s) + 1 - k]]

Count(s, x) == Cardinality({k \in DOMAIN s : s[k] = x})

Range(s) == {s[k] : k \in DOMAIN s}

\* the row of the frame that carries index label l (labels are unique)
RowAt(d, l) == d[CHOOSE k \in DOMAIN d : d[k].idx = l]

(***************************************************************************)
(* apply_fraud_rules: the columns it adds and the vectorised rule passes   *)
(***************************************************************************)
\* lines 105-112: the added columns
Prepare(d) ==
  [k \in DOMAIN d |->
     d[k] @@ [is_suspicious |-> FALSE,
              reason |-> <<>>,
              risk_score |-> 0,
              timestamp_dt |-> to_datetime(d[k].timestamp),
              hour |-> dt_hour(to_datetime(d[k].timestamp))]]

\* the high-amount rule with the limit itself included
high_amount_mask_inclusive(r) == r.amount >= HighAmount

high_amount_mask(r) == r.amount > HighAmount

risky_country_mask(r) == r.country \in risky_countries

mismatch_country_mask(r) ==
  (r.ip_country # r.home_country) /\ (r.country # r.home_country)

night_mask(r) == (r.hour >= 0 /\ r.hour <= 5) /\ (r.amount > NightAmount)

\* new_balance < previous_balance * 0.05, exactly: 100 * new < 5 * previous
almost_zero_mask(r) ==
  (r.previous_balance > 0)
  /\ (100 * r.new_balance < 5 * r.previous_balance)
  /\ (r.amount > DrainAmount)

\* the rule pass with the text put in front of the reason instead of after it
ApplyMaskPrepend(d, hits, text, weight) ==
  [k \in DOMAIN d |->
     IF k \in hits
       THEN [d[k] EXCEPT !.is_suspicious = TRUE,
                         !.reason = <<text>> \o @,
                         !.risk_score = @ + weight]
       ELSE d[k]]

\* df.loc[mask, "is_suspicious"] = True; df.loc[mask, "reason"] += text;
\* df.loc[mask, "risk_score"] += weight, for the rows (positions) the mask holds
ApplyMask(d, hits, text, weight) ==
  [k \in DOMAIN d |->
     IF k \in hits
       THEN [d[k] EXCEPT !.is_suspicious = TRUE,
                         !.reason = Append(@, text),
                         !.risk_score = @ + weight]
       ELSE d[k]]

Rule1(d) ==
  ApplyMask(d, {k \in DOMAIN d : high_amount_mask(d[k])}, R_high, W_high)

Rule2(d) ==
  ApplyMask(d, {k \in DOMAIN d : risky_country_mask(d[k])}, R_risky, W_risky)

Rule3(d) ==
  ApplyMask(d, {k \in DOMAIN d : mismatch_country_mask(d[k])},
            R_mismatch, W_mismatch)

Rule4(d) ==
  ApplyMask(d, {k \in DOMAIN d : night_mask(d[k])}, R_night, W_night)

Rule6(d) ==
  ApplyMask(d, {k \in DOMAIN d : almost_zero_mask(d[k])}, R_drain, W_drain)

(***************************************************************************)
(* Rule 5: sort, group by customer, two-pointer scan                       *)
(***************************************************************************)
\* the sort key without the timestamp
KeyLeqCustomerOnly(a, b) == a.customer_id <= b.customer_id

\* the sort key of sort_values(by=["customer_id", "timestamp_dt"])
KeyLeq(a, b) ==
  \/ a.customer_id < b.customer_id
  \/ a.customer_id = b.customer_id /\ a.timestamp_dt <= b.timestamp_dt

\* insert row r after every row whose key is <= its own (stable)
RECURSIVE InsertSorted(_, _)
InsertSorted(s, r) ==
  IF s = <<>> THEN <<r>>
  ELSE IF KeyLeq(s[Len(s)], r) THEN Append(s, r)
  ELSE Append(InsertSorted(SubSeq(s, 1, Len(s) - 1), r), s[Len(s)])

RECURSIVE SortPrefix(_, _)
SortPrefix(d, n) ==
  IF n = 0 THEN <<>> ELSE InsertSorted(SortPrefix(d, n - 1), d[n])

\* a multi-column sort_values is a lexsort: stable, equal keys keep input order
sort_values(d) == SortPrefix(d, Len(d))

RECURSIVE SetToSortedSeq(_)
SetToSortedSeq(S) ==
  IF S = {} THEN <<>>
  ELSE LET m == CHOOSE x \in S : \A y \in S : x <= y
       IN <<m>> \o SetToSortedSeq(S \ {m})

\* the keys df.groupby("customer_id") iterates, ascending
GroupKeys(d) == SetToSortedSeq({d[k].customer_id : k \in DOMAIN d})

\* the rows of one group, in frame order
RECURSIVE GroupRows(_, _)
GroupRows(d, c) ==
  IF d = <<>> THEN <<>>
  ELSE IF Head(d).customer_id = c THEN <<Head(d)>> \o GroupRows(Tail(d), c)
  ELSE GroupRows(Tail(d), c)

GroupTimes(d, c) ==
  LET g == GroupRows(d, c) IN [k \in DOMAIN g |-> g[k].timestamp_dt]

GroupIndices(d, c) ==
  LET g == GroupRows(d, c) IN [k \in DOMAIN g |-> g[k].idx]

\* the eviction test with >= in place of >
ExceedsInclusive(ts, s, e) == (ts[e + 1] - ts[s + 1]) >= window_minutes * 60

\* the eviction test without the division by 60
ExceedsInSeconds(ts, s, e) == (ts[e + 1] - ts[s + 1]) > window_minutes

\* (times[end] - times[start]).total_seconds() / 60 > window_minutes,
\* with the 0-based positions s and e of the code
Exceeds(ts, s, e) == (ts[e + 1] - ts[s + 1]) > window_minutes * 60

\* the window test with > in place of >=
WindowFullStrict(s, e) == (e - s + 1) > max_tx_in_window

\* window_size >= max_tx_in_window
WindowFull(s, e) == (e - s + 1) >= max_tx_in_window

\* indices[start:end + 1]
Slice(ix, s, e) == SubSeq(ix, s + 1, e + 1)

\* the while loop of line 152: the start it ends with
RECURSIVE Evict(_, _, _)
Evict(ts, s, e) == IF Exceeds(ts, s, e) THEN Evict(ts, s + 1, e) ELSE s

\* the for loop of lines 151-157 from position e on: what it collects
RECURSIVE ScanFrom(_, _, _, _)
ScanFrom(ts, ix, s, e) ==
  IF e >= Len(ts) THEN <<>>
  ELSE LET s2 == Evict(ts, s, e)
       IN (IF WindowFull(s2, e) THEN Slice(ix, s2, e) ELSE <<>>)
          \o ScanFrom(ts, ix, s2, e + 1)

\* lines 146-157 over the groups ks: the collected suspicious_idx
RECURSIVE ScanGroups(_, _)
ScanGroups(d, ks) ==
  IF ks = <<>> THEN <<>>
  ELSE ScanFrom(GroupTimes(d, Head(ks)), GroupIndices(d, Head(ks)), 0, 0)
       \o ScanGroups(d, Tail(ks))

\* df.loc[labels, col] = values: position k of labels receives values[k],
\* so a label listed twice is written twice and keeps the last value
RECURSIVE LocSet(_, _, _, _, _)
LocSet(d, labels, col, values, k) ==
  IF k > Len(labels) THEN d
  ELSE LocSet([j \in DOMAIN d |->
                 IF d[j].idx = labels[k]
                   THEN [d[j] EXCEPT ![col] = values[k]]
                   ELSE d[j]],
              labels, col, values, k + 1)

\* marking as a loop over the collected labels, adding once per occurrence
RECURSIVE MarkFrequencyPerOccurrence(_, _)
MarkFrequencyPerOccurrence(d, labels) ==
  IF labels = <<>> THEN d
  ELSE MarkFrequencyPerOccurrence(
         [j \in DOMAIN d |->
            IF d[j].idx = Head(labels)
              THEN [d[j] EXCEPT !.is_suspicious = TRUE,
                                !.reason = Append(@, R_freq),
                                !.risk_score = @ + W_freq]
              ELSE d[j]],
         Tail(labels))

\* marking without line 159: is_suspicious is left as it was
MarkFrequencyNoFlag(d, labels) ==
  LET d2 == LocSet(d, labels, "reason",
                   [k \in DOMAIN labels |->
                      Append(RowAt(d, labels[k]).reason, R_freq)], 1)
  IN LocSet(d2, labels, "risk_score",
            [k \in DOMAIN labels |->
               RowAt(d2, labels[k]).risk_score + W_freq], 1)

\* lines 159-161.  df.loc[labels, col] += x reads the column for every listed
\* label, adds x to each value read, and writes the results back
MarkFrequency(d, labels) ==
  LET d1 == LocSet(d, labels, "is_suspicious",
                   [k \in DOMAIN labels |-> TRUE], 1)
      d2 == LocSet(d1, labels, "reason",
                   [k \in DOMAIN labels |->
                      Append(RowAt(d1, labels[k]).reason, R_freq)], 1)
  IN LocSet(d2, labels, "risk_score",
            [k \in DOMAIN labels |->
               RowAt(d2, labels[k]).risk_score + W_freq], 1)

(***************************************************************************)
(* Clip and label                                                          *)
(***************************************************************************)
\* a clip that forgets the upper limit
clip_lower_only(v, lo, hi) == IF v < lo THEN lo ELSE v

\* Series.clip(0, 100)
clip(v, lo, hi) == IF v < lo THEN lo ELSE IF v > hi THEN hi ELSE v

Clip(d) == [k \in DOMAIN d |-> [d[k] EXCEPT !.risk_score = clip(@, 0, ClipMax)]]

\* the labels with > 70 in place of >= 70
label_risk_strict(score) ==
  IF score > 70 THEN "HIGH"
  ELSE IF score >= 40 THEN "MEDIUM"
  ELSE IF score > 0 THEN "LOW"
  ELSE "NONE"

label_risk(score) ==
  IF score >= 70 THEN "HIGH"
  ELSE IF score >= 40 THEN "MEDIUM"
  ELSE IF score > 0 THEN "LOW"
  ELSE "NONE"

Label(d) ==
  [k \in DOMAIN d |-> d[k] @@ [risk_label |-> label_risk(d[k].risk_score)]]

\* the whole function, lines 100-185
apply_fraud_rules(d) ==
  LET s == sort_values(Rule4(Rule3(Rule2(Rule1(Prepare(d))))))
  IN Label(Clip(Rule6(MarkFrequency(s, ScanGroups(s, GroupKeys(s))))))

(***************************************************************************)
(* The batches the model scores                                            *)
(***************************************************************************)
\* a row none of the per-record rules fires for; the columns channel and
\* merchant_category, which no rule reads, are left out
PlainTx(c, t) ==
  [customer_id |-> c, home_country |-> home_countries_map[c],
   amount |-> 100, country |-> home_countries_map[c],
   ip_country |-> home_countries_map[c],
   previous_balance |-> 10000, new_balance |-> 9900, timestamp |-> t]

\* generate_synthetic_transactions numbers the rows (tx_id = i + 1) and
\* pd.read_csv labels them 0..n-1
Numbered(rows) ==
  [k \in DOMAIN rows |-> rows[k] @@ [idx |-> k - 1, tx_id |-> k]]

\* odd positions first, then the even ones: neither customers nor times sorted
Mixed(s) ==
  LET odd == (Len(s) + 1) \div 2
  IN [k \in 1..Len(s) |-> IF k <= odd THEN s[2 * k - 1] ELSE s[2 * (k - odd)]]

Arrange(s, how) ==
  IF how = "asc" THEN s ELSE IF how = "desc" THEN Reverse(s) ELSE Mixed(s)

GridTimes == <<TS(0, 0, 0, 0), TS(0, 0, 10, 0), TS(0, 0, 10, 1)>>

Slots ==
  <<PlainTx(1000, GridTimes[1]), PlainTx(1000, GridTimes[2]),
    PlainTx(1000, GridTimes[3]), PlainTx(1001, GridTimes[1]),
    PlainTx(1001, GridTimes[2]), PlainTx(1001, GridTimes[3])>>

RECURSIVE NonDecreasing(_, _)
NonDecreasing(n, lo) ==
  IF n = 0 THEN {<<>>}
  ELSE UNION {{<<v>> \o s : s \in NonDecreasing(n - 1, v)} :
                v \in lo..Len(Slots)}

\* every choice of up to MaxTx rows on the grid, in the input orders hows
TimingBatches(hows) ==
  UNION {{Numbered(Arrange([k \in DOMAIN s |-> Slots[s[k]]], how)) :
            s \in NonDecreasing(n, 1), how \in hows} :
         n \in 1..MaxTx}

\* one customer, rows every 120 s or every 121 s
SpacedBatches(hows) ==
  {Numbered(Arrange([k \in 1..n |-> PlainTx(1000, FromSeconds((k - 1) * gap))],
                    how)) :
     n \in 1..MaxTx, gap \in {120, 121}, how \in hows}

ProbeTimes ==
  {TS(0, 0, 0, 0), TS(0, 0, 10, 0), TS(0, 0, 10, 1), TS(0, 5, 59, 59),
   TS(0, 6, 0, 0)}

Probes ==
  {[customer_id |-> c, home_country |-> home_countries_map[c],
    amount |-> a, country |-> co, ip_country |-> ip,
    previous_balance |-> b[1], new_balance |-> b[2], timestamp |-> t] :
     c \in customer_ids,
     a \in {500, 501, 1000, 1001, 8000, 8001},
     co \in {"PY", "AR", "NG", "RU", "CN"},
     ip \in {"PY", "AR"},
     b \in {<<0, 0>>, <<10000, 499>>, <<10000, 500>>},
     t \in ProbeTimes}

\* max_tx_in_window - 1 plain rows of customer 1000 at 00:00:00, then one row
\* with every combination of the fields the rules read
ProbeBatches ==
  {Numbered([k \in 1..(max_tx_in_window - 1) |-> PlainTx(1000, TS(0, 0, 0, 0))]
            \o <<p>>) : p \in Probes}

Batches ==
  TimingBatches({"asc", "mixed"}) \cup SpacedBatches({"asc", "desc"})
  \cup ProbeBatches

\* the batches scored twice: the second input order comes from Shuffles
ReorderBatches ==
  TimingBatches({"asc"}) \cup SpacedBatches({"asc"}) \cup ProbeBatches

(***************************************************************************)
(* apply_fraud_rules, step by step                                         *)
(***************************************************************************)
Init ==
  /\ df \in Batches
  /\ pc = "prepare"
  /\ pending = <<>>
  /\ times = <<>>
  /\ indices = <<>>
  /\ start = 0
  /\ end = 0
  /\ it = 0
  /\ suspicious_idx = <<>>
  /\ ref = <<>>

scan_vars == <<pending, times, indices, start, end, it, suspicious_idx>>

Pass(from, to, d) ==
  /\ pc = from
  /\ df' = d
  /\ pc' = to
  /\ UNCHANGED <<scan_vars, ref>>

DoPrepare == Pass("prepare", "rule1", Prepare(df))

DoRule1 == Pass("rule1", "rule2", Rule1(df))

DoRule2 == Pass("rule2", "rule3", Rule2(df))

DoRule3 == Pass("rule3", "rule4", Rule3(df))

DoRule4 == Pass("rule4", "sort", Rule4(df))

\* lines 140-146: sort, empty suspicious_idx, the groups to iterate
DoSort ==
  /\ pc = "sort"
  /\ df' = sort_values(df)
  /\ suspicious_idx' = <<>>
  /\ pending' = GroupKeys(df')
  /\ pc' = "groupby"
  /\ UNCHANGED <<times, indices, start, end, it, ref>>

\* lines 146-151: the next group, start = 0, a fresh range iterator
NextGroup ==
  /\ pc = "groupby"
  /\ pending # <<>>
  /\ times' = GroupTimes(df, Head(pending))
  /\ indices' = GroupIndices(df, Head(pending))
  /\ pending' = Tail(pending)
  /\ start' = 0
  /\ it' = 0
  /\ pc' = "for"
  /\ UNCHANGED <<df, end, suspicious_idx, ref>>

GroupsDone ==
  /\ pc = "groupby"
  /\ pending = <<>>
  /\ pc' = "mark"
  /\ UNCHANGED <<df, scan_vars, ref>>

\* line 151: for end in range(len(times))
ForNext ==
  /\ pc = "for"
  /\ it < Len(times)
  /\ end' = it
  /\ it' = it + 1
  /\ pc' = "while"
  /\ UNCHANGED <<df, pending, times, indices, start, suspicious_idx, ref>>

ForDone ==
  /\ pc = "for"
  /\ it >= Len(times)
  /\ pc' = "groupby"
  /\ UNCHANGED <<df, scan_vars, ref>>

\* lines 152-153
WhileEvict ==
  /\ pc = "while"
  /\ Exceeds(times, start, end)
  /\ start' = start + 1
  /\ UNCHANGED <<df, pc, pending, times, indices, end, it, suspicious_idx, ref>>

WhileExit ==
  /\ pc = "while"
  /\ ~Exceeds(times, start, end)
  /\ pc' = "window"
  /\ UNCHANGED <<df, scan_vars, ref>>

\* lines 155-157
CheckWindow ==
  /\ pc = "window"
  /\ suspicious_idx' =
       IF WindowFull(start, end)
         THEN suspicious_idx \o Slice(indices, start, end)
         ELSE suspicious_idx
  /\ pc' = "for"
  /\ UNCHANGED <<df, pending, times, indices, start, end, it, ref>>

DoMark == Pass("mark", "rule6", MarkFrequency(df, suspicious_idx))

DoRule6 == Pass("rule6", "clip", Rule6(df))

DoClip == Pass("clip", "label", Clip(df))

DoLabel == Pass("label", "done", Label(df))

Next ==
  \/ DoPrepare \/ DoRule1 \/ DoRule2 \/ DoRule3 \/ DoRule4 \/ DoSort
  \/ NextGroup \/ GroupsDone \/ ForNext \/ ForDone
  \/ WhileEvict \/ WhileExit \/ CheckWindow
  \/ DoMark \/ DoRule6 \/ DoClip \/ DoLabel

Spec == Init /\ [][Next]_vars

(***************************************************************************)
(* label_risk on every score the clip can leave                            *)
(***************************************************************************)
ScoredRow(k, score) ==
  [Prepare(Numbered(<<PlainTx(1000, TS(0, 0, 0, 0)),
                      PlainTx(1001, TS(0, 0, 0, 0))>>))[k]
     EXCEPT !.risk_score = score]

InitLabel ==
  /\ df \in {<<ScoredRow(1, a), ScoredRow(2, b)>> :
               a \in 0..ClipMax, b \in 0..ClipMax}
  /\ pc = "label"
  /\ pending = <<>>
  /\ times = <<>>
  /\ indices = <<>>
  /\ start = 0
  /\ end = 0
  /\ it = 0
  /\ suspicious_idx = <<>>
  /\ ref = <<>>

SpecLabel == InitLabel /\ [][DoLabel]_vars

(***************************************************************************)
(* Scoring a batch and the same batch in another input order               *)
(***************************************************************************)
Swap(n, i, j) ==
  [k \in 1..n |-> IF k = i THEN j ELSE IF k = j THEN i ELSE k]

Rotate(n) == [k \in 1..n |-> (k % n) + 1]

\* every exchange of two rows, the reversal and the rotation by one
Shuffles(n) ==
  {Swap(n, i, j) : i \in 1..n, j \in 1..n}
  \cup {[k \in 1..n |-> n + 1 - k], Rotate(n)}

\* the rows in the order p; read_csv labels them again from 0
Permute(d, p) == [k \in DOMAIN d |-> [d[p[k]] EXCEPT !.idx = k - 1]]

Outcome(r) ==
  [is_suspicious |-> r.is_suspicious, reasons |-> Range(r.reason),
   risk_score |-> r.risk_score, risk_label |-> r.risk_label]

\* the outcome of every transaction, by tx_id
ByTxId(d) ==
  [t \in {d[k].tx_id : k \in DOMAIN d} |->
     Outcome(d[CHOOSE k \in DOMAIN d : d[k].tx_id = t])]

InitReorder ==
  /\ df \in ReorderBatches
  /\ pc = "input"
  /\ pending = <<>>
  /\ times = <<>>
  /\ indices = <<>>
  /\ start = 0
  /\ end = 0
  /\ it = 0
  /\ suspicious_idx = <<>>
  /\ ref = <<>>

ScoreOriginal ==
  /\ pc = "input"
  /\ ref' = ByTxId(apply_fraud_rules(df))
  /\ pc' = "scored"
  /\ UNCHANGED <<df, scan_vars>>

ScoreShuffled ==
  /\ pc = "scored"
  /\ \E p \in Shuffles(Len(df)) : df' = apply_fraud_rules(Permute(df, p))
  /\ pc' = "rescored"
  /\ UNCHANGED <<ref, scan_vars>>

NextReorder == ScoreOriginal \/ ScoreShuffled

SpecReorder == InitReorder /\ [][NextReorder]_vars

(***************************************************************************)
(* Consistency of the step-by-step run with the function as a whole        *)
(***************************************************************************)
RawFields ==
  {"idx", "tx_id", "customer_id", "home_country", "amount", "country",
   "ip_country", "previous_balance", "new_balance", "timestamp"}

RawInput(d) ==
  [k \in DOMAIN d |->
     LET r == RowAt(d, k - 1) IN [f \in RawFields |-> r[f]]]

StepsAgreeWithFunction ==
  /\ pc = "mark" => suspicious_idx = ScanGroups(df, GroupKeys(df))
  /\ pc = "done" => df = apply_fraud_rules(RawInput(df))

(***************************************************************************)
(* What the claims speak of, stated on the input columns                   *)
(***************************************************************************)
AfterMark == pc \in {"rule6", "clip", "label", "done"}

Flagged(r) == R_freq \in Range(r.reason)

\* a set of at least 6 rows of row k's customer, with k in it, whose latest
\* and earliest instants are at most 10 minutes apart
InBurst(d, k) ==
  LET C == {i \in DOMAIN d : d[i].customer_id = d[k].customer_id}
  IN /\ Cardinality(C) >= 6
     /\ \E S \in SUBSET C :
          /\ k \in S
          /\ Cardinality(S) >= 6
          /\ \A i, j \in S : d[i].timestamp_dt - d[j].timestamp_dt <= 600

RuleOrder == <<R_high, R_risky, R_mismatch, R_night, R_drain, R_freq>>

Holds(d, k, text) ==
  LET r == d[k]
  IN CASE text = R_high -> r.amount > 8000
       [] text = R_risky -> r.country \in {"NG", "RU", "CN"}
       [] text = R_mismatch ->
            r.ip_country # r.home_country /\ r.country # r.home_country
       [] text = R_night -> r.timestamp.h \in 0..5 /\ r.amount > 500
       [] text = R_drain ->
            /\ r.previous_balance > 0
            /\ 20 * r.new_balance < r.previous_balance
            /\ r.amount > 1000
       [] text = R_freq -> InBurst(d, k)

WeightOf(text) ==
  CASE text = R_high -> 40
    [] text = R_risky -> 25
    [] text = R_mismatch -> 20
    [] text = R_night -> 15
    [] text = R_drain -> 20
    [] text = R_freq -> 30

RECURSIVE SumWeights(_)
SumWeights(reason) ==
  IF reason = <<>> THEN 0 ELSE WeightOf(Head(reason)) + SumWeights(Tail(reason))

Min(a, b) == IF a <= b THEN a ELSE b

\* C1: a transaction has the frequency flag if and only if it belongs to a
\* set of at least 6 transactions of its customer spanning at most 10 minutes
C1_FlagIffBurst ==
  AfterMark => \A k \in DOMAIN df : Flagged(df[k]) <=> InBurst(df, k)

\* a customer with a burst and, in the same batch, a transaction outside it
C1_Witness ==
  /\ pc = "done"
  /\ \E k, j \in DOMAIN df :
       /\ df[k].customer_id = df[j].customer_id
       /\ Flagged(df[k])
       /\ ~Flagged(df[j])

CustomerRows(d, c) == {k \in DOMAIN d : d[k].customer_id = c}

Span(d, S) ==
  LET ts == {d[k].timestamp_dt : k \in S}
  IN (CHOOSE x \in ts : \A y \in ts : y <= x)
     - (CHOOSE x \in ts : \A y \in ts : x <= y)

\* C2: the 10-minute boundary is inclusive: only rows more than 10 minutes
\* before the window end are evicted; 6 transactions of a customer whose first
\* and last are exactly 10 minutes apart are all flagged, 5 are not
C2_InclusiveBoundary ==
  /\ pc = "window" =>
       /\ \A k \in 0..(start - 1) : times[end + 1] - times[k + 1] > 600
       /\ \A k \in start..end : times[end + 1] - times[k + 1] <= 600
  /\ AfterMark =>
       \A c \in customer_ids :
         LET S == CustomerRows(df, c)
         IN /\ (Cardinality(S) = 6 /\ Span(df, S) = 600) =>
                 \A k \in S : Flagged(df[k])
            /\ (Cardinality(S) <= 5) => \A k \in S : ~Flagged(df[k])

\* six transactions of one customer, 2 minutes apart, all flagged
C2_Witness ==
  /\ pc = "done"
  /\ Len(df) = 6
  /\ \A k \in DOMAIN df :
       /\ df[k].customer_id = 1000
       /\ Flagged(df[k])
       /\ df[k].timestamp_dt = 120 * (k - 1)

Scored == pc \in {"label", "done"}

BeforeClip ==
  pc \in {"rule1", "rule2", "rule3", "rule4", "sort", "groupby", "for",
          "while", "window", "mark", "rule6", "clip"}

\* C3: risk_score is min(100, sum of the weights of the rules that triggered):
\* the plain sum while the rules are applied, clipped at the end, so within
\* 0..100 and never lower for a transaction with more triggered rules
C3_ScoreIsClippedSum ==
  /\ BeforeClip =>
       \A k \in DOMAIN df : df[k].risk_score = SumWeights(df[k].reason)
  /\ Scored =>
       \A k \in DOMAIN df :
         /\ df[k].risk_score = Min(100, SumWeights(df[k].reason))
         /\ df[k].risk_score >= 0
         /\ df[k].risk_score <= 100
         /\ Range(df[k].reason) = {R_high, R_risky} => df[k].risk_score = 65
         /\ \A j \in DOMAIN df :
              Range(df[j].reason) \subseteq Range(df[k].reason) =>
                df[j].risk_score <= df[k].risk_score

\* a transaction whose weights sum to more than 100, scored 100
C3_Witness ==
  /\ pc = "done"
  /\ \E k \in DOMAIN df :
       SumWeights(df[k].reason) > 100 /\ df[k].risk_score = 100

LabelRank(l) ==
  CASE l = "NONE" -> 0 [] l = "LOW" -> 1 [] l = "MEDIUM" -> 2 [] l = "HIGH" -> 3

\* C4: risk_label is HIGH iff score >= 70, MEDIUM iff 40..69, LOW iff 1..39,
\* NONE iff 0, and a higher score never has a lower label
C4_LabelByScore ==
  pc = "done" =>
    \A k \in DOMAIN df :
      LET sc == df[k].risk_score
          l == df[k].risk_label
      IN /\ l \in {"NONE", "LOW", "MEDIUM", "HIGH"}
         /\ (l = "HIGH") <=> (sc >= 70)
         /\ (l = "MEDIUM") <=> (sc >= 40 /\ sc <= 69)
         /\ (l = "LOW") <=> (sc >= 1 /\ sc <= 39)
         /\ (l = "NONE") <=> (sc = 0)
         /\ \A j \in DOMAIN df :
              df[j].risk_score <= sc =>
                LabelRank(df[j].risk_label) <= LabelRank(l)

\* the scores 69 and 70, labelled MEDIUM and HIGH
C4_Witness ==
  /\ pc = "done"
  /\ df[1].risk_score = 69 /\ df[1].risk_label = "MEDIUM"
  /\ df[2].risk_score = 70 /\ df[2].risk_label = "HIGH"

\* C5: the reasons of a scored transaction are exactly the rules whose
\* predicate holds for it, each once
C5_ReasonsExactlyTriggered ==
  pc = "done" =>
    \A k \in DOMAIN df :
      /\ \A n \in DOMAIN RuleOrder :
           Count(df[k].reason, RuleOrder[n]) =
             IF Holds(df, k, RuleOrder[n]) THEN 1 ELSE 0
      /\ Range(df[k].reason) \subseteq Range(RuleOrder)

\* a transaction that triggers all six rules
C5_Witness ==
  /\ pc = "done"
  /\ \E k \in DOMAIN df : Range(df[k].reason) = Range(RuleOrder)

\* position of a reason text in an order of the rules
PosIn(order, text) == CHOOSE n \in DOMAIN order : order[n] = text

InOrder(reason, order) ==
  \A i, j \in DOMAIN reason :
    i < j => PosIn(order, reason[i]) < PosIn(order, reason[j])

C7_MarkOnce ==
  AfterMark =>
    \A k \in DOMAIN df :
      /\ Count(df[k].reason, R_freq) =
           IF Count(suspicious_idx, df[k].idx) >= 1 THEN 1 ELSE 0
      /\ pc = "rule6" =>
           df[k].risk_score =
             SumWeights(SelectSeq(df[k].reason, LAMBDA t : t # R_freq))
             + (IF Count(suspicious_idx, df[k].idx) >= 1 THEN 30 ELSE 0)

\* a transaction collected by two windows and one collected by a single one
C7_Witness ==
  /\ pc = "rule6"
  /\ \E k, j \in DOMAIN df :
       /\ Count(suspicious_idx, df[k].idx) >= 2
       /\ Count(suspicious_idx, df[j].idx) = 1
       /\ df[k].risk_score = df[j].risk_score

\* the rules already applied when the run is at a step
Applied ==
  CASE pc \in {"prepare", "rule1"} -> {}
    [] pc = "rule2" -> {R_high}
    [] pc = "rule3" -> {R_high, R_risky}
    [] pc = "rule4" -> {R_high, R_risky, R_mismatch}
    [] pc \in {"sort", "groupby", "for", "while", "window", "mark"} ->
         {R_high, R_risky, R_mismatch, R_night}
    [] pc = "rule6" -> {R_high, R_risky, R_mismatch, R_night, R_freq}
    [] OTHER -> Range(RuleOrder)

\* C9: after each rule pass is_suspicious holds exactly for the transactions a
\* rule applied so far triggers for; in the output it holds iff risk_score > 0
\* iff the reasons are non-empty iff risk_label is not NONE
C9_SuspiciousIffTriggered ==
  /\ pc # "prepare" =>
       \A k \in DOMAIN df :
         /\ df[k].is_suspicious <=>
              \E n \in DOMAIN RuleOrder :
                RuleOrder[n] \in Applied /\ Holds(df, k, RuleOrder[n])
         /\ df[k].is_suspicious <=> (df[k].risk_score > 0)
         /\ df[k].is_suspicious <=> (df[k].reason # <<>>)
  /\ pc = "done" =>
       \A k \in DOMAIN df :
         df[k].is_suspicious <=> (df[k].risk_label # "NONE")

\* an output with a transaction only the frequency rule flags and one no rule
\* flags
C9_Witness ==
  /\ pc = "done"
  /\ \E k, j \in DOMAIN df :
       /\ df[k].reason = <<R_freq>> /\ df[k].is_suspicious
       /\ df[j].reason = <<>> /\ ~df[j].is_suspicious

\* C8: for every other order of the input, every transaction, by tx_id, has
\* the same is_suspicious, the same reasons, the same risk_score and the same
\* risk_label
C8_OrderInvariant == pc = "rescored" => ByTxId(df) = ref

\* a batch with a flagged burst, scored again with its rows in an order that
\* is not sorted by time
C8_Witness ==
  /\ pc = "rescored"
  /\ \E k \in DOMAIN df : Flagged(df[k])
  /\ \E k, j \in DOMAIN df :
       /\ df[k].customer_id = df[j].customer_id
       /\ df[k].idx < df[j].idx
       /\ df[k].timestamp_dt > df[j].timestamp_dt

InScan == pc \in {"while", "window"}

\* C10: in the scan, start is reset to 0 for every customer, never decreases
\* within a customer and never passes end: 0 <= start <= end < len(times);
\* after the eviction loop [start, end] is the longest window ending at end
\* that spans at most 10 minutes
C10_TwoPointers ==
  /\ [](InScan => (0 <= start /\ start <= end /\ end < Len(times)))
  /\ []((pc = "window") =>
          /\ times[end + 1] - times[start + 1] <= 600
          /\ (start > 0 => times[end + 1] - times[start] > 600))
  /\ [][(pc = "groupby" /\ pc' = "for") => start' = 0]_vars
  /\ [][(pc \in {"for", "while", "window"}) => start' >= start]_vars

\* the eviction loop has moved start past rows of the customer and stopped
\* before end
C10_Witness ==
  /\ pc = "window"
  /\ start >= 2
  /\ start < end

====
